---- MODULE Spec2Model ----
(***************************************************************************)
(* Market Pulse Bot (market_pulse_patched.py): the scheduler loop of main, *)
(* the pipeline run_once = fetch_snapshot* ; build_message ; post_discord, *)
(* and the indicator compute_rsi.                                          *)
(*                                                                         *)
(* Units.  Wall-clock time is counted in whole seconds; a datetime is a    *)
(* record [day, tod, off]: day number (day % 7 is datetime.weekday(), 0 =  *)
(* Monday), seconds since midnight, UTC offset in seconds.  The clock wraps *)
(* after one week (only the weekday of a date is ever read).  Provider     *)
(* close prices are exact decimals counted in thousandths; values that     *)
(* went through round(x, 2) are counted in hundredths.  Floating point is  *)
(* modelled by exact fractions extended with +inf, -inf and NaN.           *)
(* An optional value is <<>> (None) or <<v>>.                              *)
(*                                                                         *)
(* Scope.  The UTC offset of datetime.now(ET) is chosen at the start and   *)
(* stays (no daylight-saving change during a run).  The pipeline takes no  *)
(* clock time and a sleep ends exactly on time.  Closes are numbers (no    *)
(* NaN prices).  Logging, preview_df and the configuration files are left  *)
(* out; the configuration is the source's defaults.                        *)
(***************************************************************************)
EXTENDS Integers, Sequences, FiniteSets, TLC

VARIABLES
    pc,         \* control position of the process (or of the function call)
    webhook,    \* DISCORD_WEBHOOK_URL as read at startup
    exit_code,  \* <<>> while running, <<n>> after sys.exit(n)
    clock,      \* exchange wall clock, seconds since Monday 00:00
    utcoff,     \* UTC offset pytz gives datetime.now(ET): EST or EDT
    now_et,     \* the datetime read at the top of the current iteration
    decision,   \* what the current iteration decided
    snaps,      \* run_once: snapshots fetched so far in this run
    msg,        \* run_once: the message built in this run, <<>> before
    ok,         \* run_once: result of post_discord, <<>> before
    nfetch,     \* calls of fetch_snapshot in the current iteration
    nbuild,     \* calls of build_message in the current iteration
    npost,      \* HTTP POSTs issued in the current iteration
    call,       \* arguments of the function under test (function specs)
    ret,        \* its result (function specs)
    track,      \* whether the two histories below are recorded in this run
    served,     \* history: what the provider answered in the current run
    earlier_ok  \* history: an earlier run got a price for every instrument

vars == <<pc, webhook, exit_code, clock, utcoff, now_et, decision, snaps, msg,
          ok, nfetch, nbuild, npost, call, ret, track, served,
          earlier_ok>>

-----------------------------------------------------------------------------
(* Optional values and exact "floats" *)

None == <<>>
Some(v) == <<v>>
IsNone(x) == x = <<>>

\* A float: den > 0 is the fraction num/den; den = 0 is +inf (num = 1),
\* -inf (num = -1) or NaN (num = 0).
Fin(n, d) == IF d < 0 THEN [num |-> -n, den |-> -d] ELSE [num |-> n, den |-> d]
FInt(n) == [num |-> n, den |-> 1]
NaN == [num |-> 0, den |-> 0]
IsNaN(x) == x.den = 0 /\ x.num = 0
IsInf(x) == x.den = 0 /\ x.num # 0
Sign(n) == IF n > 0 THEN 1 ELSE IF n < 0 THEN -1 ELSE 0

\* IEEE division as numpy does it on float64 arrays: x/0 is +-inf, 0/0 is NaN,
\* nothing raises.
FDiv(a, b) ==
    IF IsNaN(a) \/ IsNaN(b) THEN NaN
    ELSE IF IsInf(a) THEN (IF IsInf(b) THEN NaN
                           ELSE [num |-> a.num * (IF b.num < 0 THEN -1 ELSE 1), den |-> 0])
    ELSE IF IsInf(b) THEN FInt(0)
    ELSE IF b.num = 0 THEN [num |-> Sign(a.num), den |-> 0]
    ELSE Fin(a.num * b.den, a.den * b.num)

FAdd(a, b) ==
    IF IsNaN(a) \/ IsNaN(b) THEN NaN
    ELSE IF IsInf(a) THEN (IF IsInf(b) /\ b.num # a.num THEN NaN ELSE a)
    ELSE IF IsInf(b) THEN b
    ELSE Fin(a.num * b.den + b.num * a.den, a.den * b.den)

FNeg(a) == [num |-> -a.num, den |-> a.den]
FSub(a, b) == FAdd(a, FNeg(b))

\* round-half-to-even of the fraction n/d (d # 0) to an integer
RoundHalfEven(n, d) ==
    LET nn == IF d < 0 THEN -n ELSE n
        dd == IF d < 0 THEN -d ELSE d
        q == nn \div dd
        r == nn - q * dd
    IN IF 2 * r < dd THEN q
       ELSE IF 2 * r > dd THEN q + 1
       ELSE IF q % 2 = 0 THEN q ELSE q + 1

\* What an infinite float counts as, in hundredths
INF == 2 * 1000000000

\* round(x, 2) of a float that is no NaN, result counted in hundredths
Round2(x) == IF x.den = 0 THEN Sign(x.num) * INF ELSE RoundHalfEven(x.num * 100, x.den)

\* a close price given in thousandths, as a float
Price(c) == Fin(c, 1000)

RECURSIVE SumTo(_, _, _)
SumTo(f, lo, hi) == IF hi < lo THEN 0 ELSE f[hi] + SumTo(f, lo, hi - 1)

-----------------------------------------------------------------------------
(* compute_rsi *)

PERIOD == 14

\* Series.rolling(window).mean() of a NaN-free integer series: NaN until the
\* window is full, then the mean of the last `window` entries.
RollingMean(s, window) ==
    [i \in 1..Len(s) |->
        IF i < window THEN NaN ELSE Fin(SumTo(s, i - window + 1, i), window)]

dropna(s) == SelectSeq(s, LAMBDA x : ~IsNaN(x))

\* delta.where(delta > 0, 0.0): NaN > 0 is False, so a NaN delta gives 0
GainOf(d) == IF ~IsNone(d) /\ d[1] > 0 THEN d[1] ELSE 0

\* The loss series left negative
LossOf_Signed(d) == IF ~IsNone(d) /\ d[1] < 0 THEN d[1] ELSE 0

\* -delta.where(delta < 0, 0.0)
LossOf(d) == -(IF ~IsNone(d) /\ d[1] < 0 THEN d[1] ELSE 0)

compute_rsi(close, period) ==
    IF Len(close) = 0 \/ Len(close) < period + 1 THEN None
    ELSE
      LET n == Len(close)
          \* close.diff(): NaN at the first position
          delta == [i \in 1..n |-> IF i = 1 THEN None ELSE Some(close[i] - close[i-1])]
          gain == [i \in 1..n |-> GainOf(delta[i])]
          loss == [i \in 1..n |-> LossOf(delta[i])]
          avg_gain == RollingMean(gain, period)
          avg_loss == RollingMean(loss, period)
          rs == [i \in 1..n |-> FDiv(avg_gain[i], avg_loss[i])]
          rsi == [i \in 1..n |->
                     FSub(FInt(100), FDiv(FInt(100), FAdd(FInt(1), rs[i])))]
          kept == dropna(rsi)
      IN IF kept # <<>> THEN Some(Round2(kept[Len(kept)])) ELSE None

-----------------------------------------------------------------------------
(* fetch_snapshot *)

\* A provider response (yf.download): the call raised, or it returned a frame
\* whose Close column is `close` (thousandths); <<>> is the empty frame.
ProviderError == [err |-> TRUE, close |-> <<>>]
Frame(close) == [err |-> FALSE, close |-> close]

\* A snapshot that starts from the values of an earlier call
EmptySnap_Stale(ticker) ==
    [ticker |-> ticker, last |-> Some(10500), chg_pct |-> Some(500), rsi |-> None]

\* snap = {"ticker": ticker, "last": None, "chg_pct": None, "rsi": None}
EmptySnap(ticker) == [ticker |-> ticker, last |-> None, chg_pct |-> None, rsi |-> None]

\* The change left as a fraction, not multiplied by 100
ChgPct_Fraction(last_close, prev) == Round2(Fin(last_close - prev, prev))

\* round((last_close - prev) / prev * 100.0, 2), in hundredths
ChgPct(last_close, prev) == Round2(Fin((last_close - prev) * 100, prev))

\* What the 1d/1m frame df_1m puts into the snapshot: last and chg_pct
FromIntraday(snap, df_1m) ==
    LET n == Len(df_1m)
        last_close == df_1m[n]
        prev == df_1m[n - 1]
    IN IF n = 0 THEN snap
       ELSE [snap EXCEPT
               !.last = Some(Round2(Price(last_close))),
               !.chg_pct = IF n > 1 /\ prev # 0
                           THEN Some(ChgPct(last_close, prev))
                           ELSE None]

\* What the 7d/15m frame df_15m puts into the snapshot: rsi
FromMultiDay(snap, df_15m) ==
    IF Len(df_15m) # 0
    THEN [snap EXCEPT !.rsi = compute_rsi(df_15m, PERIOD)]
    ELSE snap

\* The same without the try/except: a provider error leaves the function
fetch_snapshot_NoCatch(ticker, r1, r2) ==
    IF r1.err \/ r2.err
    THEN [snap |-> EmptySnap(ticker), raised |-> TRUE]
    ELSE [snap |-> FromMultiDay(FromIntraday(EmptySnap(ticker), r1.close), r2.close),
          raised |-> FALSE]

\* The same with the snapshot emptied again when the second download fails
fetch_snapshot_Discard(ticker, r1, r2) ==
    IF r1.err \/ r2.err
    THEN [snap |-> EmptySnap(ticker), raised |-> FALSE]
    ELSE [snap |-> FromMultiDay(FromIntraday(EmptySnap(ticker), r1.close), r2.close),
          raised |-> FALSE]

\* r1: response to the 1d/1m download, r2: response to the 7d/15m download
\* (issued only when the first one did not raise).  An exception skips the
\* rest of the try block and is caught.  Result: the snapshot, and whether
\* an exception left the function.
fetch_snapshot(ticker, r1, r2) ==
    LET snap0 == EmptySnap(ticker)
    IN IF r1.err THEN [snap |-> snap0, raised |-> FALSE]
       ELSE IF r2.err
            THEN [snap |-> FromIntraday(snap0, r1.close), raised |-> FALSE]
            ELSE [snap |-> FromMultiDay(FromIntraday(snap0, r1.close), r2.close),
                  raised |-> FALSE]

-----------------------------------------------------------------------------
(* build_message *)

\* A line of the message is a sequence of tokens; a token is a sequence of
\* characters (fixed texts are kept as one piece, "FENCE" is the code fence).
\* Column padding is dropped.
DigitChar == <<"0", "1", "2", "3", "4", "5", "6", "7", "8", "9">>

RECURSIVE Digits(_)
Digits(n) == IF n < 10 THEN <<DigitChar[n + 1]>>
             ELSE Digits(n \div 10) \o <<DigitChar[(n % 10) + 1]>>

\* f"{x:.2f}" of a value x counted in hundredths
Fmt2f(h) ==
    LET a == IF h < 0 THEN -h ELSE h
    IN (IF h < 0 THEN <<"-">> ELSE <<>>) \o Digits(a \div 100) \o <<".">>
       \o <<DigitChar[((a % 100) \div 10) + 1], DigitChar[(a % 10) + 1]>>

NA == <<"n", "/", "a">>

\* A truthiness test in place of isinstance: 0 is taken for missing
FmtField_Truthy(v) == IF ~IsNone(v) /\ v[1] # 0 THEN Fmt2f(v[1]) ELSE NA

\* isinstance(v, (int, float)): every value other than None is a number here
FmtField(v) == IF ~IsNone(v) THEN Fmt2f(v[1]) ELSE NA

MsgHeader ==
    << <<<<"Market Pulse Bot - Snapshot">>>>,
       <<<<"_Generated at">>, <<"%Y-%m-%d %H:%M:%S">>, <<"local_">>>>,
       <<>>,
       <<<<"FENCE">>>>,
       <<<<"Ticker">>, <<"Last">>, <<"chg%">>, <<"RSI(14)">>>>,
       <<<<"----------------------------------">>>> >>

MsgRow(s) == <<<<s.ticker>>, FmtField(s.last), FmtField(s.chg_pct), FmtField(s.rsi)>>

build_message(ss) ==
    MsgHeader \o [i \in 1..Len(ss) |-> MsgRow(ss[i])] \o << <<<<"FENCE">>>> >>

-----------------------------------------------------------------------------
(* post_discord *)

\* The outcome of requests.post: a transport exception, or a status code.
TransportError == [exc |-> TRUE, status |-> 0]
Status(code) == [exc |-> FALSE, status |-> code]

\* One more attempt after a failed delivery
post_discord_Retry(url, content, resp) ==
    IF ~resp.exc /\ 200 <= resp.status /\ resp.status < 300
    THEN [ret |-> TRUE, posts |-> 1, raised |-> FALSE]
    ELSE [ret |-> FALSE, posts |-> 2, raised |-> FALSE]

\* The same without the try/except: a transport exception leaves the function
post_discord_NoCatch(url, content, resp) ==
    IF resp.exc THEN [ret |-> FALSE, posts |-> 1, raised |-> TRUE]
    ELSE [ret |-> 200 <= resp.status /\ resp.status < 300, posts |-> 1,
          raised |-> FALSE]

\* Result: the returned bool, the number of POSTs issued, and whether an
\* exception left the function.
post_discord(url, content, resp) ==
    IF resp.exc THEN [ret |-> FALSE, posts |-> 1, raised |-> FALSE]
    ELSE IF 200 <= resp.status /\ resp.status < 300
         THEN [ret |-> TRUE, posts |-> 1, raised |-> FALSE]
         ELSE [ret |-> FALSE, posts |-> 1, raised |-> FALSE]

-----------------------------------------------------------------------------
(* Configuration read by main (the defaults of the source) *)

tickers == <<"SPY", "QQQ", "DIA">>
early_int == 30
early_dur == 150
later_int == 60
MARKET_OPEN == 9 * 3600 + 30 * 60
MARKET_CLOSE == 16 * 3600

DAY == 24 * 3600
WEEK == 7 * DAY

\* UTC offsets (seconds).  datetime.now(ET) carries EST or EDT; the zone
\* object ET itself, attached with replace(tzinfo=ET), carries pytz's first
\* entry for US/Eastern, local mean time -4:56.
EST == -(5 * 3600)
EDT == -(4 * 3600)
ET_LMT == -(4 * 3600 + 56 * 60)

-----------------------------------------------------------------------------
(* The scheduler's time arithmetic *)

\* datetime.now(ET): day counts the days since the Monday the clock starts from
Now(c, off) == [day |-> c \div DAY, tod |-> c % DAY, off |-> off]

weekday(d) == d.day % 7

\* a - b of two aware datetimes, in seconds
TotalSeconds(a, b) == (a.day * DAY + a.tod - a.off) - (b.day * DAY + b.tod - b.off)

\* now_et.replace(hour=.., minute=.., second=0, microsecond=0)
today_open(now) == [now EXCEPT !.tod = MARKET_OPEN]
today_close(now) == [now EXCEPT !.tod = MARKET_CLOSE]

\* The close instant left out of the market hours
InMarketHours_CloseExclusive(now) ==
    today_open(now).tod <= now.tod /\ now.tod < today_close(now).tod

\* today_open.time() <= now_et.time() <= today_close.time()
InMarketHours(now) ==
    today_open(now).tod <= now.tod /\ now.tod <= today_close(now).tod

\* (now_et - mo).total_seconds() / 60.0
minutes_since_open(now, open_t) ==
    Fin(TotalSeconds(now, [now EXCEPT !.tod = open_t]), 60)

FLeq(a, b) == a.num * b.den <= b.num * a.den

\* The early window with its end left out
ChooseInterval_Strict(mins_open) ==
    IF mins_open.num < early_dur * mins_open.den THEN early_int ELSE later_int

\* interval = early_int if mins_open <= early_dur else later_int
ChooseInterval(mins_open) ==
    IF FLeq(mins_open, FInt(early_dur)) THEN early_int ELSE later_int

\* Only Sunday skipped
RECURSIVE SkipWeekend_SundayOnly(_)
SkipWeekend_SundayOnly(d) ==
    IF weekday(d) >= 6 THEN SkipWeekend_SundayOnly([d EXCEPT !.day = @ + 1]) ELSE d

\* while next_day.weekday() >= 5: next_day += timedelta(days=1)
RECURSIVE SkipWeekend(_)
SkipWeekend(d) ==
    IF weekday(d) >= 5 THEN SkipWeekend([d EXCEPT !.day = @ + 1]) ELSE d

\* next open after today's close
NextOpenAfterClose(now) ==
    LET next_day == SkipWeekend([now EXCEPT !.day = @ + 1])
    IN [next_day EXCEPT !.tod = MARKET_OPEN, !.off = ET_LMT]

Max(a, b) == IF a >= b THEN a ELSE b

\* time.sleep(max(1.0, seconds)): the seconds that pass
sleep_until(seconds) == Max(1, seconds)

NoDecision ==
    [state |-> "none", mins_open |-> None, interval |-> None,
     next_open |-> None, sleep_secs |-> None]

\* One evaluation of the loop head on the datetime now
Decide(now) ==
    IF InMarketHours(now)
    THEN LET mins_open == minutes_since_open(now, MARKET_OPEN)
         IN [NoDecision EXCEPT !.state = "MARKET_OPEN_ACTIVE",
                               !.mins_open = Some(mins_open),
                               !.interval = Some(ChooseInterval(mins_open))]
    ELSE LET next_open == IF now.tod > today_close(now).tod
                          THEN NextOpenAfterClose(now)
                          ELSE today_open(now)
         IN [NoDecision EXCEPT !.state = "MARKET_CLOSED_WAITING",
                               !.next_open = Some(next_open),
                               !.sleep_secs = Some(TotalSeconds(next_open, now))]

-----------------------------------------------------------------------------
(* Inputs *)

\* Start times lie within Eps seconds of the instants the schedule turns on.
Eps == 1
\* Longest series tried exhaustively on compute_rsi, and on the 1m download.
MaxLen == 5
MaxIntraday == 2

Webhooks == {None, Some(""), Some("https://discord.example/api/webhooks/1")}

TurningPoints == {MARKET_OPEN, MARKET_OPEN + early_dur * 60, MARKET_CLOSE}

OtherTimes ==
    {0, 6 * 3600, MARKET_OPEN + 149 * 60, MARKET_OPEN + 151 * 60, 20 * 3600, DAY - 1}

StartTimes == {t + e : t \in TurningPoints, e \in (0 - Eps)..Eps} \cup OtherTimes

StartClocks == {d * DAY + t : d \in 0..6, t \in StartTimes}

\* 15-minute series of a given shape and length (thousandths)
Shapes == {"flat", "up", "down", "zigzag", "dropflat", "riseflat"}
Shape(kind, n) ==
    [i \in 1..n |->
        CASE kind = "flat" -> 100000
          [] kind = "up" -> 100000 + 100 * i
          [] kind = "down" -> 100000 - 100 * i
          [] kind = "zigzag" -> 100000 + 300 * (i % 2) + 50 * (i % 3)
          [] kind = "dropflat" -> IF i = 1 THEN 101000 ELSE 100000
          [] kind = "riseflat" -> IF i = 1 THEN 99000 ELSE 100000]

\* What the provider answers to the two downloads of one fetch_snapshot in
\* the scheduler's runs: the first download fails, the second one fails, the
\* second one is one point short for the oscillator, or both deliver (empty
\* and other short frames are tried on fetch_snapshot alone)
MainResponses ==
    { [r1 |-> ProviderError, r2 |-> ProviderError],
      [r1 |-> Frame(<<100000, 105000>>), r2 |-> ProviderError],
      [r1 |-> Frame(<<100000, 105000>>), r2 |-> Frame(Shape("zigzag", PERIOD))],
      [r1 |-> Frame(<<100000, 105000>>), r2 |-> Frame(Shape("zigzag", PERIOD + 1))] }

PostResponses ==
    {TransportError, Status(199), Status(200), Status(204), Status(299),
     Status(300), Status(404), Status(500)}

NoCall == [fn |-> "none"]

-----------------------------------------------------------------------------
(* main *)

\* The process starts at one of the clocks, recording the histories or not
InitAt(clocks, tracking) ==
    /\ pc = "start"
    /\ webhook \in Webhooks
    /\ exit_code = None
    /\ clock \in clocks
    /\ utcoff \in {EST, EDT}
    /\ now_et = None
    /\ decision = NoDecision
    /\ snaps = <<>>
    /\ msg = <<>>
    /\ ok = None
    /\ nfetch = 0
    /\ nbuild = 0
    /\ npost = 0
    /\ call = NoCall
    /\ ret = None
    /\ track = tracking
    /\ served = <<>>
    /\ earlier_ok = FALSE

Init == InitAt(StartClocks, FALSE)

\* The test `webhook is None` in place of `not webhook`
NotSet_NoneOnly(w) == IsNone(w)

\* not webhook: None and the empty string are falsy
NotSet(w) == IF IsNone(w) THEN TRUE ELSE w[1] = ""

\* if not webhook: sys.exit(1)
StartupExit ==
    /\ pc = "start"
    /\ NotSet(webhook)
    /\ pc' = "exited"
    /\ exit_code' = Some(1)
    /\ UNCHANGED <<track, served, earlier_ok, webhook, clock, utcoff, now_et, decision, snaps, msg, ok,
                   nfetch, nbuild, npost, call, ret>>

StartupOk ==
    /\ pc = "start"
    /\ ~NotSet(webhook)
    /\ pc' = "loop"
    /\ UNCHANGED <<track, served, earlier_ok, webhook, exit_code, clock, utcoff, now_et, decision, snaps,
                   msg, ok, nfetch, nbuild, npost, call, ret>>

\* The head of the while loop: read the clock and decide
Tick(state, next) ==
    /\ pc = "loop"
    /\ Decide(Now(clock, utcoff)).state = state
    /\ now_et' = Now(clock, utcoff)
    /\ decision' = Decide(Now(clock, utcoff))
    /\ pc' = next
    /\ snaps' = <<>>
    /\ msg' = <<>>
    /\ ok' = None
    /\ nfetch' = 0
    /\ nbuild' = 0
    /\ npost' = 0
    /\ served' = <<>>
    /\ UNCHANGED <<track, earlier_ok, webhook, exit_code, clock, utcoff, call, ret>>

TickActive == Tick("MARKET_OPEN_ACTIVE", "fetch")

TickWaiting == Tick("MARKET_CLOSED_WAITING", "sleep_until")

\* run_once: snaps = [fetch_snapshot(t, preview_rows) for t in tickers], one call
FetchSnapshot ==
    /\ pc = "fetch"
    /\ Len(snaps) < Len(tickers)
    /\ \E r \in MainResponses :
         LET res == fetch_snapshot(tickers[Len(snaps) + 1], r.r1, r.r2)
         IN IF res.raised
            THEN pc' = "crashed" /\ snaps' = snaps /\ served' = served
            ELSE /\ snaps' = Append(snaps, res.snap)
                 /\ served' = IF track THEN Append(served, r) ELSE served
                 /\ pc' = IF Len(snaps) + 1 = Len(tickers) THEN "build" ELSE "fetch"
    /\ nfetch' = nfetch + 1
    /\ UNCHANGED <<track, earlier_ok, webhook, exit_code, clock, utcoff, now_et, decision, msg, ok,
                   nbuild, npost, call, ret>>

\* run_once: msg = build_message(snaps)
BuildMessage ==
    /\ pc = "build"
    /\ msg' = build_message(snaps)
    /\ nbuild' = nbuild + 1
    /\ pc' = "post"
    /\ UNCHANGED <<track, served, earlier_ok, webhook, exit_code, clock, utcoff, now_et, decision, snaps, ok,
                   nfetch, npost, call, ret>>

\* run_once: ok = post_discord(webhook, msg); run_once returns, its locals go
PostDiscord ==
    /\ pc = "post"
    /\ \E resp \in PostResponses :
         LET res == post_discord(webhook[1], msg, resp)
         IN /\ npost' = npost + res.posts
            /\ IF res.raised
               THEN pc' = "crashed" /\ ok' = ok
               ELSE pc' = "sleep_interval" /\ ok' = Some(res.ret)
    /\ snaps' = <<>>
    /\ msg' = <<>>
    /\ served' = <<>>
    /\ earlier_ok' = (earlier_ok
                       \/ (track /\ \A i \in 1..Len(snaps) : ~IsNone(snaps[i].last)))
    /\ UNCHANGED <<track, webhook, exit_code, clock, utcoff, now_et, decision, nfetch,
                   nbuild, call, ret>>

\* time.sleep(interval * 60); continue
SleepInterval ==
    /\ pc = "sleep_interval"
    /\ clock' = (clock + decision.interval[1] * 60) % WEEK
    /\ pc' = "loop"
    /\ UNCHANGED <<track, served, earlier_ok, webhook, exit_code, utcoff, now_et, decision, snaps, msg, ok,
                   nfetch, nbuild, npost, call, ret>>

\* sleep_until(sleep_secs)
SleepUntil ==
    /\ pc = "sleep_until"
    /\ clock' = (clock + sleep_until(decision.sleep_secs[1])) % WEEK
    /\ pc' = "loop"
    /\ UNCHANGED <<track, served, earlier_ok, webhook, exit_code, utcoff, now_et, decision, snaps, msg, ok,
                   nfetch, nbuild, npost, call, ret>>

Next ==
    \/ StartupExit
    \/ StartupOk
    \/ TickActive
    \/ TickWaiting
    \/ FetchSnapshot
    \/ BuildMessage
    \/ PostDiscord
    \/ SleepInterval
    \/ SleepUntil

Spec == Init /\ [][Next]_vars

\* The same program started on a Monday at the open, with the histories of
\* the provider's answers recorded
SpecFrame == InitAt({MARKET_OPEN}, TRUE) /\ [][Next]_vars

\* The process is the only thread and is never held back: whenever it can
\* take a step it takes one (every sleep returns).
SpecLive == Spec /\ WF_vars(Next)

-----------------------------------------------------------------------------
(* The functions on their own: one call each, on inputs drawn by Init *)

Idle ==
    /\ webhook = None
    /\ exit_code = None
    /\ clock = 0
    /\ utcoff = EST
    /\ now_et = None
    /\ decision = NoDecision
    /\ snaps = <<>>
    /\ msg = <<>>
    /\ ok = None
    /\ nfetch = 0
    /\ nbuild = 0
    /\ npost = 0
    /\ track = FALSE
    /\ served = <<>>
    /\ earlier_ok = FALSE

Return(v) ==
    /\ pc = "call"
    /\ ret' = v
    /\ pc' = "returned"
    /\ UNCHANGED <<track, served, earlier_ok, webhook, exit_code, clock, utcoff, now_et, decision, snaps,
                   msg, ok, nfetch, nbuild, npost, call>>

SeqsUpTo(S, n) == UNION {[1..k -> S] : k \in 0..n}

\* compute_rsi
SmallCloses == {1000, 1100, 1300}
SmallPeriods == {1, 2, 3}

RsiCalls ==
    {[fn |-> "compute_rsi", close |-> c, period |-> p] :
        c \in SeqsUpTo(SmallCloses, MaxLen), p \in SmallPeriods}
    \cup
    {[fn |-> "compute_rsi", close |-> Shape(k, n), period |-> PERIOD] :
        k \in Shapes, n \in (PERIOD - 1)..(PERIOD + 3)}

InitRsi == pc = "call" /\ call \in RsiCalls /\ ret = None /\ Idle

CallComputeRsi ==
    call.fn = "compute_rsi" /\ Return(compute_rsi(call.close, call.period))

SpecRsi == InitRsi /\ [][CallComputeRsi]_vars

\* fetch_snapshot
IntradayCloses == {0 - 2000, 0, 100000, 100005, 100123, 105000}

SnapCalls ==
    {[fn |-> "fetch_snapshot", ticker |-> "SPY", r1 |-> a, r2 |-> b] :
        a \in {ProviderError} \cup {Frame(c) : c \in SeqsUpTo(IntradayCloses, MaxIntraday)},
        b \in {ProviderError, Frame(<<>>), Frame(Shape("flat", PERIOD + 1)),
               Frame(Shape("up", PERIOD)), Frame(Shape("zigzag", PERIOD + 1))}}

InitSnap == pc = "call" /\ call \in SnapCalls /\ ret = None /\ Idle

CallFetchSnapshot ==
    call.fn = "fetch_snapshot" /\ Return(fetch_snapshot(call.ticker, call.r1, call.r2))

SpecSnap == InitSnap /\ [][CallFetchSnapshot]_vars

\* build_message
LastValues == {None, Some(0), Some(10500)}
ChgValues == {None, Some(0 - 512), Some(7)}
RsiValues == {None, Some(4286), Some(10000)}

MkSnaps(f) ==
    [i \in DOMAIN f |-> [ticker |-> tickers[i], last |-> f[i][1],
                         chg_pct |-> f[i][2], rsi |-> f[i][3]]]

InitMsg ==
    /\ pc = "call"
    /\ \E k \in 0..Len(tickers) :
         \E f \in [1..k -> LastValues \X ChgValues \X RsiValues] :
            call = [fn |-> "build_message", snaps |-> MkSnaps(f)]
    /\ ret = None
    /\ Idle

CallBuildMessage ==
    call.fn = "build_message" /\ Return(build_message(call.snaps))

SpecMsg == InitMsg /\ [][CallBuildMessage]_vars

-----------------------------------------------------------------------------
(* Claims about the scheduler and the pipeline, under Spec *)

Active == decision.state = "MARKET_OPEN_ACTIVE"
Waiting == decision.state = "MARKET_CLOSED_WAITING"
InRun == pc \in {"fetch", "build", "post", "sleep_interval"}

\* the clock value at which the current iteration read now_et
TickClock == now_et.day * DAY + now_et.tod

\* C1: a tick is treated as MARKET_OPEN_ACTIVE (and enters the pipeline) if
\* and only if its time of day t satisfies open <= t <= close, both ends
\* included; every t before open or after close is MARKET_CLOSED_WAITING.
C1_ActiveIffWithinHours ==
    /\ Active <=> (decision.state # "none" /\ MARKET_OPEN <= now_et.tod
                                           /\ now_et.tod <= MARKET_CLOSE)
    /\ Waiting <=> (decision.state # "none" /\ (now_et.tod < MARKET_OPEN
                                                \/ now_et.tod > MARKET_CLOSE))
    /\ InRun => Active
    /\ pc = "sleep_until" => Waiting

C1_Witness ==
    pc = "fetch" /\ Active /\ now_et.tod = MARKET_CLOSE

\* C2: an active iteration makes exactly one pipeline run before it sleeps:
\* one fetch_snapshot per configured instrument, in order, one build_message
\* and one POST; a waiting iteration makes no fetch, no build and no POST.
C2_OneRunPerActiveTick ==
    /\ pc # "crashed"
    /\ Waiting => nfetch = 0 /\ nbuild = 0 /\ npost = 0
    /\ Active => /\ nfetch = (IF pc = "fetch" THEN Len(snaps) ELSE Len(tickers))
                 /\ nbuild = (IF pc \in {"fetch", "build"} THEN 0 ELSE 1)
                 /\ npost = (IF pc \in {"fetch", "build", "post"} THEN 0 ELSE 1)
    /\ pc \in {"fetch", "build", "post"} =>
          \A i \in 1..Len(snaps) : snaps[i].ticker = tickers[i]
    /\ pc \in {"build", "post"} => Len(snaps) = Len(tickers)

C2_Witness ==
    pc = "sleep_interval" /\ nfetch = Len(tickers) /\ nbuild = 1 /\ npost = 1

\* C3: on an active tick the interval is early_int when the time since
\* today's open is at most early_dur minutes (the end included) and later_int
\* otherwise, and the sleep that follows lasts that interval; 149 minutes
\* select 30, 151 minutes select later_int.
C3_IntervalByElapsed ==
    Active =>
        LET elapsed == now_et.tod - MARKET_OPEN
            expected == IF elapsed <= early_dur * 60 THEN early_int ELSE later_int
        IN /\ decision.interval = Some(expected)
           /\ elapsed = 149 * 60 => decision.interval = Some(30)
           /\ elapsed = 151 * 60 => decision.interval = Some(later_int)
           /\ pc = "loop" => clock = (TickClock + expected * 60) % WEEK
           /\ pc # "loop" => clock = TickClock

C3_Witness ==
    /\ Active /\ pc = "loop"
    /\ now_et.tod = MARKET_OPEN + early_dur * 60
    /\ decision.interval = Some(early_int)

\* C4: on a waiting tick past today's close, next_open is the open time of
\* the first day after today that is no Saturday or Sunday: Monday after a
\* Friday, the next day after a Monday to Thursday.  (The day and the time of
\* day of next_open; the UTC offset attached to it is not part of this.)
C4_NextOpenSkipsWeekend ==
    (Waiting /\ now_et.tod > MARKET_CLOSE) =>
        LET next_open == decision.next_open[1]
        IN /\ next_open.tod = MARKET_OPEN
           /\ next_open.day > now_et.day
           /\ weekday(next_open) \notin {5, 6}
           /\ \A d \in (now_et.day + 1)..(next_open.day - 1) : d % 7 \in {5, 6}
           /\ weekday(now_et) = 4 =>
                 next_open.day = now_et.day + 3 /\ weekday(next_open) = 0
           /\ weekday(now_et) \in 0..3 => next_open.day = now_et.day + 1

C4_Witness ==
    /\ Waiting /\ pc = "sleep_until"
    /\ weekday(now_et) = 4 /\ now_et.tod > MARKET_CLOSE
    /\ weekday(decision.next_open[1]) = 0 /\ decision.next_open[1].tod = MARKET_OPEN

\* the rows of the table of a message: between the rule and the closing fence
TableRows(m) == SubSeq(m, Len(MsgHeader) + 1, Len(m) - 1)

AllMissing(snap) == IsNone(snap.last) /\ IsNone(snap.chg_pct) /\ IsNone(snap.rsi)

\* C5: whichever provider calls fail within a tick, fetch_snapshot is called
\* for every configured instrument (a failure stops neither the run nor the
\* later fetches) and the message has one row per configured instrument, in
\* the configured order.
C5_FailureIsolation ==
    /\ pc # "crashed"
    /\ pc = "fetch" => nfetch = Len(snaps)
    /\ pc \in {"build", "post"} =>
          /\ nfetch = Len(tickers)
          /\ [i \in 1..Len(snaps) |-> snaps[i].ticker] = tickers
    /\ pc = "post" =>
          /\ Len(TableRows(msg)) = Len(tickers)
          /\ \A i \in 1..Len(tickers) :
                /\ TableRows(msg)[i][1] = <<tickers[i]>>
                /\ TableRows(msg)[i] = MsgRow(snaps[i])

\* the first instrument's download failed, a later one delivered, and the
\* message holds the rows of both
C5_Witness ==
    /\ pc = "post"
    /\ AllMissing(snaps[1]) /\ ~IsNone(snaps[2].last) /\ AllMissing(snaps[3])
    /\ TableRows(msg)[1] = <<<<"SPY">>, NA, NA, NA>>
    /\ TableRows(msg)[2][2] # NA

\* C6: a failed delivery returns false and raises nothing, is not repeated
\* within the tick, and the scheduler then sleeps the interval of that tick
\* and comes back to the loop head, as after a delivery that succeeded.
C6_DeliveryFailureContained ==
    /\ pc # "crashed"
    /\ pc = "sleep_interval" => ok \in {Some(TRUE), Some(FALSE)} /\ npost = 1
    /\ (pc = "loop" /\ ok = Some(FALSE)) =>
          /\ npost = 1
          /\ Active
          /\ clock = (TickClock + decision.interval[1] * 60) % WEEK

C6_Witness ==
    pc = "loop" /\ ok = Some(FALSE) /\ Active /\ npost = 1

\* Seconds on the exchange's wall clock from the datetime a to the datetime b
WallSeconds(a, b) == (b.day * DAY + b.tod) - (a.day * DAY + a.tod)

\* C16: on every waiting tick the next-open instant carries the UTC offset of
\* now and the single sleep lasts the wall-clock time from now to it, so that
\* the loop is next evaluated at the open time of the target day and that
\* evaluation is MARKET_OPEN_ACTIVE.
C16_SleepEndsAtOpen ==
    Waiting =>
        LET next_open == decision.next_open[1]
        IN /\ next_open.off = now_et.off
           /\ next_open.tod = MARKET_OPEN
           /\ decision.sleep_secs[1] = WallSeconds(now_et, next_open)
           /\ pc = "loop" =>
                 /\ clock = (next_open.day * DAY + MARKET_OPEN) % WEEK
                 /\ Decide(Now(clock, utcoff)).state = "MARKET_OPEN_ACTIVE"

\* C17: no run of the pipeline takes place on a Saturday or a Sunday, and
\* every next-open instant the scheduler sleeps towards is on Monday-Friday.
C17_NoWeekendRun ==
    /\ InRun => weekday(now_et) \in 0..4
    /\ Waiting => weekday(decision.next_open[1]) \in 0..4

-----------------------------------------------------------------------------
(* Claims about compute_rsi, under SpecRsi *)

RsiReturned == pc = "returned" /\ call.fn = "compute_rsi"

\* C7: compute_rsi returns None for every series of fewer than period + 1
\* observations and a number for every series of at least period + 1
\* observations (period 14: 14 points give None, 15 points give a number).
C7_DefinedFromPeriodPlusOne ==
    RsiReturned =>
        /\ Len(call.close) < call.period + 1 => IsNone(ret)
        /\ Len(call.close) >= call.period + 1 => ~IsNone(ret)
        /\ (call.period = 14 /\ Len(call.close) = 14) => IsNone(ret)
        /\ (call.period = 14 /\ Len(call.close) = 15) => ~IsNone(ret)

\* C8: every number compute_rsi returns lies between 0 and 100 (hundredths:
\* between 0 and 10000).
C8_RsiBounded ==
    (RsiReturned /\ ~IsNone(ret)) => (0 <= ret[1] /\ ret[1] <= 100 * 100)

C8_Witness ==
    /\ RsiReturned /\ call.period = PERIOD /\ ~IsNone(ret)
    /\ 0 < ret[1] /\ ret[1] < 100 * 100

-----------------------------------------------------------------------------
(* Claims about fetch_snapshot, under SpecSnap *)

SnapReturned == pc = "returned" /\ call.fn = "fetch_snapshot"

Abs(n) == IF n < 0 THEN -n ELSE n

\* v is num/den rounded to the nearest integer (either neighbour on a tie)
IsNearest(v, num, den) == 2 * Abs(v * den - num) <= Abs(den)

\* chg_pct is (latest - previous) / previous * 100 rounded to 2 decimals
\* exactly when the 1m series has 2 points or more and previous is not zero,
\* and None otherwise; [100, 105] gives 5.00 and [100] gives None.
ChgPctAsSpecified ==
    LET c == call.r1.close
        n == Len(c)
        chg == ret.snap.chg_pct
        has == ~call.r1.err /\ n >= 2 /\ c[n - 1] # 0
    IN /\ has => (~IsNone(chg)
                  /\ IsNearest(chg[1], (c[n] - c[n - 1]) * 100 * 100, c[n - 1]))
       /\ ~has => IsNone(chg)
       /\ (~call.r1.err /\ c = <<100000, 105000>>) => chg = Some(500)
       /\ (~call.r1.err /\ c = <<100000>>) => IsNone(chg)

\* C9 as stated: last is the most recent close of the 1m series whenever the
\* series is not empty, and chg_pct is as specified.
C9_LastIsLatestClose ==
    SnapReturned =>
        /\ (~call.r1.err /\ Len(call.r1.close) >= 1) =>
               (~IsNone(ret.snap.last)
                /\ ret.snap.last[1] * 10 = call.r1.close[Len(call.r1.close)])
        /\ ChgPctAsSpecified

\* C9 amended: last is the most recent close of the 1m series rounded to 2
\* decimals whenever the series is not empty (and None when there is no
\* series or it is empty), and chg_pct is as specified.
C9_LastIsLatestCloseRounded ==
    SnapReturned =>
        /\ ~ret.raised
        /\ (~call.r1.err /\ Len(call.r1.close) >= 1) =>
               (~IsNone(ret.snap.last)
                /\ IsNearest(ret.snap.last[1], call.r1.close[Len(call.r1.close)], 10))
        /\ (call.r1.err \/ Len(call.r1.close) = 0) => IsNone(ret.snap.last)
        /\ ChgPctAsSpecified

C9_Witness ==
    /\ SnapReturned /\ ~call.r1.err
    /\ call.r1.close = <<100000, 100123>>
    /\ ret.snap.last = Some(10012)
    /\ ret.snap.chg_pct = Some(12)

\* A provider call of this fetch_snapshot failed
ProviderFailed == call.r1.err \/ (~call.r1.err /\ call.r2.err)

\* C15 as stated: when the first or the second provider call fails, nothing
\* propagates, a snapshot of the symbol is returned, and its last, chg_pct
\* and rsi are all unavailable.
C15_FailureLeavesAllUnavailable ==
    (SnapReturned /\ ProviderFailed) =>
        /\ ~ret.raised
        /\ ret.snap.ticker = call.ticker
        /\ IsNone(ret.snap.last) /\ IsNone(ret.snap.chg_pct) /\ IsNone(ret.snap.rsi)

\* C15 amended: when a provider call fails, nothing propagates and a snapshot
\* of the symbol is returned with rsi unavailable; last and chg_pct are
\* unavailable too when the first call failed, and are the values of the
\* first series (as in C9) when only the second call failed.
C15_FailureKeepsFirstSeries ==
    (SnapReturned /\ ProviderFailed) =>
        /\ ~ret.raised
        /\ ret.snap.ticker = call.ticker
        /\ IsNone(ret.snap.rsi)
        /\ call.r1.err => (IsNone(ret.snap.last) /\ IsNone(ret.snap.chg_pct))
        /\ ~call.r1.err =>
              LET c == call.r1.close
              IN /\ Len(c) >= 1 => (~IsNone(ret.snap.last)
                                    /\ IsNearest(ret.snap.last[1], c[Len(c)], 10))
                 /\ Len(c) = 0 => IsNone(ret.snap.last)
                 /\ ChgPctAsSpecified

C15_Witness ==
    /\ SnapReturned /\ ~call.r1.err /\ call.r2.err
    /\ call.r1.close = <<100000, 105000>>
    /\ ret.snap = [ticker |-> "SPY", last |-> Some(10500), chg_pct |-> Some(500),
                   rsi |-> None]

-----------------------------------------------------------------------------
(* Claims about build_message, under SpecMsg *)

MsgReturned == pc = "returned" /\ call.fn = "build_message"

IsDigit(c) == \E d \in 0..9 : DigitChar[d + 1] = c
DigitVal(c) == CHOOSE d \in 0..9 : DigitChar[d + 1] = c

RECURSIVE DigitsValue(_)
DigitsValue(ds) ==
    IF ds = <<>> THEN 0
    ELSE DigitsValue(SubSeq(ds, 1, Len(ds) - 1)) * 10 + DigitVal(ds[Len(ds)])

Unsigned(tok) == IF tok # <<>> /\ tok[1] = "-" THEN Tail(tok) ELSE tok

\* tok reads as a decimal number with two digits after the point
IsFixed2(tok) ==
    LET u == Unsigned(tok)
    IN /\ Len(u) >= 4
       /\ u[Len(u) - 2] = "."
       /\ \A i \in (1..Len(u)) \ {Len(u) - 2} : IsDigit(u[i])

\* the number tok reads as, in hundredths
ReadFixed2(tok) ==
    LET u == Unsigned(tok)
        v == DigitsValue(SubSeq(u, 1, Len(u) - 3)) * 100
             + DigitsValue(SubSeq(u, Len(u) - 1, Len(u)))
    IN IF tok[1] = "-" THEN -v ELSE v

FieldRendered(v, tok) ==
    IF IsNone(v) THEN tok = NA
    ELSE tok # NA /\ IsFixed2(tok) /\ ReadFixed2(tok) = v[1]

\* C10: the table has one row per snapshot, in input order; in each row a
\* missing last, chg_pct or rsi reads n/a and a present one reads as its
\* number, never n/a, blank or zero in its place; a snapshot with all three
\* missing gives a row of three n/a.
C10_RowsAndMissingFields ==
    MsgReturned =>
        LET rows == TableRows(ret)
            ss == call.snaps
        IN /\ SubSeq(ret, 1, Len(MsgHeader)) = MsgHeader
           /\ Len(rows) = Len(ss)
           /\ \A i \in 1..Len(ss) :
                 /\ Len(rows[i]) = 4
                 /\ rows[i][1] = <<ss[i].ticker>>
                 /\ FieldRendered(ss[i].last, rows[i][2])
                 /\ FieldRendered(ss[i].chg_pct, rows[i][3])
                 /\ FieldRendered(ss[i].rsi, rows[i][4])
                 /\ AllMissing(ss[i]) => SubSeq(rows[i], 2, 4) = <<NA, NA, NA>>

C10_Witness ==
    /\ MsgReturned
    /\ [i \in 1..Len(call.snaps) |-> call.snaps[i].ticker] = <<"SPY", "QQQ", "DIA">>
    /\ AllMissing(call.snaps[1])
    /\ TableRows(ret)[1] = <<<<"SPY">>, NA, NA, NA>>
    /\ call.snaps[2].last = Some(0)
    /\ TableRows(ret)[2][2] = <<"0", ".", "0", "0">>
    /\ call.snaps[3].chg_pct = Some(0 - 512)
    /\ TableRows(ret)[3][3] = <<"-", "5", ".", "1", "2">>

-----------------------------------------------------------------------------
(* Claims about the startup and the loop as a whole *)

\* The destination is not configured: no value, or the empty string
WebhookAbsent == webhook = None \/ webhook = Some("")

\* C11: with DISCORD_WEBHOOK_URL absent or empty, main exits with a nonzero
\* code before the loop: no tick is evaluated, nothing is fetched or posted
\* and no sleep is taken; with it present, main does not exit and the loop
\* is entered.
C11_ExitWithoutWebhook ==
    /\ WebhookAbsent =>
          /\ pc \in {"start", "exited"}
          /\ decision = NoDecision /\ IsNone(now_et)
          /\ nfetch = 0 /\ nbuild = 0 /\ npost = 0
          /\ pc = "start" => ENABLED StartupExit
          /\ pc = "exited" => (~IsNone(exit_code) /\ exit_code[1] # 0 /\ ~ENABLED Next)
    /\ ~WebhookAbsent =>
          /\ pc # "exited" /\ IsNone(exit_code)
          /\ pc = "start" => (ENABLED StartupOk /\ ~ENABLED StartupExit)

C11_Witness ==
    pc = "exited" /\ webhook = Some("") /\ exit_code = Some(1)

LoopEntered == pc \notin {"start", "exited"}

\* C12: once the loop is entered it neither exits nor gets stuck: from every
\* position of an iteration the loop head is reached again, and every visit
\* of the loop head evaluates a tick (so ticks are evaluated for ever),
\* whatever the clock, the provider and the webhook do.
C12_LoopRunsForEver ==
    /\ LoopEntered ~> (pc = "loop")
    /\ (pc = "loop") ~> (pc \in {"fetch", "sleep_until"})

\* back at the loop head after a Sunday's waiting sleep
C12_Witness ==
    pc = "loop" /\ Waiting /\ weekday(now_et) = 6 /\ clock # TickClock

-----------------------------------------------------------------------------
(* More claims about compute_rsi, under SpecRsi *)

\* The i-th of the last `period` differences of close
LastDelta(close, period, i) ==
    close[Len(close) - period + i] - close[Len(close) - period + i - 1]

\* The rises and the falls summed over the last `period` differences
WindowGain(close, period) ==
    LET g == [i \in 1..period |->
                 IF LastDelta(close, period, i) > 0
                 THEN LastDelta(close, period, i) ELSE 0]
    IN SumTo(g, 1, period)

WindowLoss(close, period) ==
    LET l == [i \in 1..period |->
                 IF LastDelta(close, period, i) < 0
                 THEN 0 - LastDelta(close, period, i) ELSE 0]
    IN SumTo(l, 1, period)

\* C13: for every series of at least period + 1 observations with no negative
\* difference among its last `period` differences (a flat tail included),
\* compute_rsi returns the saturation value 100 (hundredths: 10000).
C13_ZeroLossSaturates ==
    (/\ RsiReturned
     /\ Len(call.close) >= call.period + 1
     /\ WindowLoss(call.close, call.period) = 0) => ret = Some(100 * 100)

\* C14: every value compute_rsi returns is the oscillator of the last `period`
\* differences, 100 * gains / (gains + losses) rounded to 2 decimals (100 when
\* there is no loss), and is the value returned for the last period + 1
\* observations alone: older observations do not change it.
C14_LatestWindowOnly ==
    (RsiReturned /\ ~IsNone(ret)) =>
        LET c == call.close
            p == call.period
            n == Len(c)
            G == WindowGain(c, p)
            L == WindowLoss(c, p)
        IN /\ n >= p + 1
           /\ IF L = 0 THEN ret[1] = 100 * 100
              ELSE IsNearest(ret[1], 100 * 100 * G, G + L)
           /\ ret = compute_rsi(SubSeq(c, n - p, n), p)

-----------------------------------------------------------------------------
(* Claim about what a tick keeps, under SpecFrame *)

\* The provider's answer r leaves the oscillator without enough data
NoOscillatorData(r) == r.r1.err \/ r.r2.err \/ Len(r.r2.close) < PERIOD + 1

\* Outside a run nothing of a run is held; within a run there is one snapshot
\* per answer of this run; and each row of the message about to be delivered
\* is made of the answers of this run
FreshRows ==
    /\ pc \notin {"fetch", "build", "post"} => (snaps = <<>> /\ msg = <<>>)
    /\ (track /\ pc \in {"fetch", "build", "post"}) => Len(snaps) = Len(served)
    /\ (track /\ pc = "post") =>
          /\ Len(served) = Len(tickers)
          /\ Len(TableRows(msg)) = Len(tickers)
          /\ \A i \in 1..Len(tickers) :
                LET r == served[i]
                    row == TableRows(msg)[i]
                    c == r.r1.close
                IN /\ row[1] = <<tickers[i]>>
                   /\ r.r1.err => SubSeq(row, 2, 4) = <<NA, NA, NA>>
                   /\ (~r.r1.err /\ Len(c) >= 1) =>
                         /\ IsFixed2(row[2])
                         /\ IsNearest(ReadFixed2(row[2]), c[Len(c)], 10)
                   /\ NoOscillatorData(r) => row[4] = NA

\* C18: no tick changes the destination (the rest of the schedule
\* configuration is fixed by definition), and the message delivered on a tick
\* holds only what was fetched on that tick: an instrument whose fetch failed
\* reads n/a in all three fields, and one with too short a series reads n/a
\* for the oscillator, whatever earlier ticks obtained.
C18_NothingCrossesTicks == [][webhook' = webhook]_vars /\ []FreshRows

C18_Witness ==
    /\ track /\ earlier_ok /\ pc = "post"
    /\ served[1].r1.err
    /\ TableRows(msg)[1] = <<<<"SPY">>, NA, NA, NA>>
    /\ ~served[2].r1.err /\ ~served[2].r2.err /\ Len(served[2].r2.close) = PERIOD
    /\ TableRows(msg)[2][2] = <<"1", "0", "5", ".", "0", "0">>
    /\ TableRows(msg)[2][4] = NA
    /\ ~NoOscillatorData(served[3])
    /\ TableRows(msg)[3][4] # NA
====
